---- MODULE Spec2Model ----
(***************************************************************************)
(* Model of create_data.py: a command-line program that creates, under the *)
(* desktop directory (or the home directory), one folder named after a     *)
(* date.                                                                   *)
(*                                                                         *)
(* Text is modelled as a tuple of one-character strings, a path as a tuple *)
(* of components (each component a tuple of characters), a calendar date   *)
(* as a record [year, month, day], and an optional value as a set with at  *)
(* most one element (None is the empty set).                               *)
(***************************************************************************)
EXTENDS Integers, Sequences, FiniteSets, TLC

\* ------------------------------------------------------------------ bounds
MaxLen == 4      \* longest --date text enumerated exhaustively (SpecParse)
MaxSpace == 2    \* most directories the disk can still take
MaxRuns == 2     \* invocations of the program in one behaviour

\* ------------------------------------------------------------- text, dates
DigitChars == <<"0", "1", "2", "3", "4", "5", "6", "7", "8", "9">>

IsDigit(c) == \E i \in 1..10 : DigitChars[i] = c

DigitVal(c) == (CHOOSE i \in 1..10 : DigitChars[i] = c) - 1

\* "%02d" % n, for 0 <= n <= 99
TwoDigits(n) == <<DigitChars[(n \div 10) + 1], DigitChars[(n % 10) + 1]>>

\* "%04d"-like rendering of a year in 1000..9999
FourDigits(n) ==
    <<DigitChars[(n \div 1000) + 1], DigitChars[((n \div 100) % 10) + 1],
      DigitChars[((n \div 10) % 10) + 1], DigitChars[(n % 10) + 1]>>

IsLeap(y) == (y % 4 = 0) /\ ((y % 100 # 0) \/ (y % 400 = 0))

DaysInMonth(y, m) ==
    CASE m \in {4, 6, 9, 11} -> 30
      [] m = 2 -> IF IsLeap(y) THEN 29 ELSE 28
      [] OTHER -> 31

\* datetime.date(y, m, d) raises ValueError unless this holds
ValidDate(y, m, d) ==
    /\ y \in 1..9999
    /\ m \in 1..12
    /\ d \in 1..DaysInMonth(y, m)

None == {}
Some(x) == {x}
TheValue(opt) == CHOOSE x \in opt : TRUE

\* Python truthiness of args.date: None and "" are falsy
Truthy(opt) == opt # None /\ opt # Some(<<>>)

\* ---------------------------------------------------------------- strptime
\* The year datetime.strptime gives a date whose format has no year token.
DefaultYear == 1900

\* the text has k more characters from index i on
Has(s, i, k) == i + k - 1 <= Len(s)

NonZeroDigit(c) == IsDigit(c) /\ c # "0"

\* %m  ->  (?P<m>1[0-2]|0[1-9]|[1-9]) ; the alternatives in order, each as
\* <<end index, value>> of a match starting at index i of s.
MonthAlts(s, i) ==
    (IF Has(s, i, 2) /\ s[i] = "1" /\ s[i+1] \in {"0", "1", "2"}
     THEN <<<<i + 2, 10 + DigitVal(s[i+1])>>>> ELSE <<>>)
    \o (IF Has(s, i, 2) /\ s[i] = "0" /\ NonZeroDigit(s[i+1])
        THEN <<<<i + 2, DigitVal(s[i+1])>>>> ELSE <<>>)
    \o (IF Has(s, i, 1) /\ NonZeroDigit(s[i])
        THEN <<<<i + 1, DigitVal(s[i])>>>> ELSE <<>>)

\* %d  ->  (?P<d>3[0-1]|[1-2]\d|0[1-9]|[1-9]| [1-9])
DayAlts(s, i) ==
    (IF Has(s, i, 2) /\ s[i] = "3" /\ s[i+1] \in {"0", "1"}
     THEN <<<<i + 2, 30 + DigitVal(s[i+1])>>>> ELSE <<>>)
    \o (IF Has(s, i, 2) /\ s[i] \in {"1", "2"} /\ IsDigit(s[i+1])
        THEN <<<<i + 2, 10 * DigitVal(s[i]) + DigitVal(s[i+1])>>>> ELSE <<>>)
    \o (IF Has(s, i, 2) /\ s[i] = "0" /\ NonZeroDigit(s[i+1])
        THEN <<<<i + 2, DigitVal(s[i+1])>>>> ELSE <<>>)
    \o (IF Has(s, i, 1) /\ NonZeroDigit(s[i])
        THEN <<<<i + 1, DigitVal(s[i])>>>> ELSE <<>>)
    \o (IF Has(s, i, 2) /\ s[i] = " " /\ NonZeroDigit(s[i+1])
        THEN <<<<i + 2, DigitVal(s[i+1])>>>> ELSE <<>>)

\* The match that takes month alternative m = <<end, month>> and goes on
\* through "\." and the first day alternative: <<<<end, month, day>>>>,
\* or <<>> when there is none
Through(s, m) ==
    IF m[1] <= Len(s) /\ s[m[1]] = "." /\ DayAlts(s, m[1] + 1) # <<>>
    THEN <<<<DayAlts(s, m[1] + 1)[1][1], m[2], DayAlts(s, m[1] + 1)[1][2]>>>>
    ELSE <<>>

RECURSIVE FirstThrough(_, _)
\* the first month alternative of ms that leads to a match
FirstThrough(s, ms) ==
    IF ms = <<>> THEN <<>>
    ELSE IF Through(s, ms[1]) # <<>> THEN Through(s, ms[1])[1]
    ELSE FirstThrough(s, Tail(ms))

\* re.match of the compiled "%m.%d" pattern: the first match in the regex
\* engine's backtracking order, as <<end index, month, day>>, or <<>>.
FormatMatch(s) == FirstThrough(s, MonthAlts(s, 1))

\* strptime keeping the leap year it tries February 29 with
strptime_keeps_leap_year(s) ==
    LET found == FormatMatch(s)
    IN  IF found = <<>> THEN [ok |-> FALSE]
        ELSE IF found[1] # Len(s) + 1 THEN [ok |-> FALSE]
        ELSE IF found[2] = 2 /\ found[3] = 29
             THEN [ok |-> TRUE,
                   date |-> [year |-> 1904, month |-> 2, day |-> 29]]
        ELSE IF ~ValidDate(DefaultYear, found[2], found[3])
             THEN [ok |-> FALSE]
        ELSE [ok |-> TRUE,
              date |-> [year |-> DefaultYear, month |-> found[2],
                        day |-> found[3]]]

\* datetime.datetime.strptime(s, "%m.%d").date(): [ok |-> FALSE] stands for
\* ValueError (no match, unconverted data remains, day out of range).
strptime(s) ==
    LET found == FormatMatch(s)
    IN  IF found = <<>> THEN [ok |-> FALSE]
        ELSE IF found[1] # Len(s) + 1 THEN [ok |-> FALSE]
        ELSE IF ~ValidDate(DefaultYear, found[2], found[3])
             THEN [ok |-> FALSE]
        ELSE [ok |-> TRUE,
              date |-> [year |-> DefaultYear, month |-> found[2],
                        day |-> found[3]]]

\* ---------------------------------------------------------------- strftime
RECURSIVE strftime(_, _)
\* date.strftime(fmt) for the directives %Y %m %d %%; any other character
\* is copied.
strftime(date, fmt) ==
    IF fmt = <<>> THEN <<>>
    ELSE IF fmt[1] = "%" /\ Len(fmt) >= 2 /\ fmt[2] \in {"Y", "m", "d", "%"}
         THEN (CASE fmt[2] = "Y" -> FourDigits(date.year)
                 [] fmt[2] = "m" -> TwoDigits(date.month)
                 [] fmt[2] = "d" -> TwoDigits(date.day)
                 [] OTHER -> <<"%">>)
              \o strftime(date, SubSeq(fmt, 3, Len(fmt)))
         ELSE <<fmt[1]>> \o strftime(date, Tail(fmt))

\* -------------------------------------------------------------- filesystem
\* A filesystem is a function from the paths that exist to "dir" or "file".
Root == <<>>

\* Path.home()
HomeDir == <<<<"home">>>>

\* COMMON_DESKTOP_DIRS[0]: Path.home() / "D:\Desktop" (one POSIX component)
CandidateDir == HomeDir \o <<<<"D:\\Desktop">>>>

COMMON_DESKTOP_DIRS == <<CandidateDir>>

Parent(p) == IF p = Root THEN Root ELSE SubSeq(p, 1, Len(p) - 1)

exists(f, p) == p \in DOMAIN f

is_dir(f, p) == p \in DOMAIN f /\ f[p] = "dir"

RECURSIVE SplitSlash(_, _)
\* name.split("/"), cur being the component read so far
SplitSlash(name, cur) ==
    IF name = <<>> THEN <<cur>>
    ELSE IF name[1] = "/" THEN <<cur>> \o SplitSlash(Tail(name), <<>>)
    ELSE SplitSlash(Tail(name), Append(cur, name[1]))

\* the components pathlib keeps: empty ones and "." are dropped
Parts(name) ==
    SelectSeq(SplitSlash(name, <<>>), LAMBDA c : c # <<>> /\ c # <<".">>)

\* target_dir / folder_name: a name starting with "/" replaces the base
JoinPath(target_dir, folder_name) ==
    IF folder_name # <<>> /\ folder_name[1] = "/"
    THEN Parts(folder_name)
    ELSE target_dir \o Parts(folder_name)

\* os.mkdir(p) on disk state st = [fs, denied, space]: the errno, or "OK"
OsMkdir(st, p) ==
    LET above == {k \in 0..(Len(p) - 1) : ~is_dir(st.fs, SubSeq(p, 1, k))}
        first == CHOOSE k \in above : \A j \in above : k <= j
    IN  IF p = Root THEN "EEXIST"
        ELSE IF above # {}
             THEN (IF exists(st.fs, SubSeq(p, 1, first))
                   THEN "ENOTDIR" ELSE "ENOENT")
        ELSE IF exists(st.fs, p) THEN "EEXIST"
        ELSE IF Parent(p) \in st.denied THEN "EACCES"
        ELSE IF st.space = 0 THEN "ENOSPC"
        ELSE "OK"

RECURSIVE PathMkdir_any_kind(_, _, _, _)
\* Path.mkdir taking anything that exists at p for the directory
PathMkdir_any_kind(st, p, parents, exist_ok) ==
    LET e == OsMkdir(st, p)
    IN  IF e = "OK"
        THEN [fs |-> [q \in DOMAIN st.fs \cup {p} |->
                        IF q = p THEN "dir" ELSE st.fs[q]],
              denied |-> st.denied, space |-> st.space - 1, err |-> "OK"]
        ELSE IF e = "ENOENT"
        THEN IF ~parents \/ Parent(p) = p
             THEN [st EXCEPT !.err = e]
             ELSE LET up == PathMkdir_any_kind(st, Parent(p), TRUE, TRUE)
                  IN  IF up.err # "OK" THEN up
                      ELSE PathMkdir_any_kind(up, p, FALSE, exist_ok)
        ELSE IF ~exist_ok \/ ~exists(st.fs, p)
             THEN [st EXCEPT !.err = e]
             ELSE [st EXCEPT !.err = "OK"]

RECURSIVE PathMkdir(_, _, _, _)
\* Path.mkdir(parents=, exist_ok=): the disk state afterwards with err = "OK",
\* or with err the errno of the OSError raised
PathMkdir(st, p, parents, exist_ok) ==
    LET e == OsMkdir(st, p)
    IN  IF e = "OK"
        THEN [fs |-> [q \in DOMAIN st.fs \cup {p} |->
                        IF q = p THEN "dir" ELSE st.fs[q]],
              denied |-> st.denied, space |-> st.space - 1, err |-> "OK"]
        ELSE IF e = "ENOENT"
        THEN IF ~parents \/ Parent(p) = p
             THEN [st EXCEPT !.err = e]
             ELSE LET up == PathMkdir(st, Parent(p), TRUE, TRUE)
                  IN  IF up.err # "OK" THEN up
                      ELSE PathMkdir(up, p, FALSE, exist_ok)
        ELSE IF ~exist_ok \/ ~is_dir(st.fs, p)
             THEN [st EXCEPT !.err = e]
             ELSE [st EXCEPT !.err = "OK"]

\* ----------------------------------------------------------------- program
VARIABLES
    args,          \* argparse result: [date, format, dry_run]
    today,         \* what datetime.date.today() returns
    fs,            \* the filesystem
    denied,        \* directories the user may not write into
    space,         \* directories the disk can still take
    pc,            \* position of the process
    desktop_path,  \* main's desktop_path (None before it is set)
    date_obj,      \* main's date_obj (None before it is set)
    folder_path,   \* make_folder_for_date's folder_path
    out,           \* lines printed by the current run
    exit_status,   \* exit status of the process (None while it runs)
    run,           \* number of the current invocation
    fs_start,      \* the filesystem when the current run started
    runs           \* one record per finished run: [status, out, before, fs]

vars == <<args, today, fs, denied, space, pc, desktop_path, date_obj,
          folder_path, out, exit_status, run, fs_start, runs>>

\* --date values of the runs explored by Spec
DateArgs ==
    { None, Some(<<>>),
      Some(<<"1", "1", ".", "0", "4">>),
      Some(<<"1", ".", "5">>),
      Some(<<"1", ".", " ", "5">>),
      Some(<<"0", "2", ".", "2", "9">>),
      Some(<<"0", "2", ".", "2", "8">>),
      Some(<<"1", "2", ".", "3", "1">>),
      Some(<<"1", "1", ".", "0", "4", " ">>),
      Some(<<"1", "3", ".", "0", "1">>),
      Some(<<"2", "0", "2", "5", "-", "1", "1", "-", "0", "4">>),
      Some(<<"1", "3", "-", "9", "9", "-", "2", "0", "2", "5">>) }

\* the default of --format
DefaultFormat == <<"%", "m", ".", "%", "d">>

\* --format values of the runs explored by Spec
Formats ==
    { DefaultFormat,
      <<"%", "Y", "%", "m", "%", "d">>,
      <<"%", "Y", "/", "%", "m", ".", "%", "d">>,
      <<"/", "%", "m", "%", "d">>,
      <<>> }

Todays ==
    { [year |-> 2025, month |-> 11, day |-> 4],
      [year |-> 2028, month |-> 2, day |-> 29] }

\* the paths strictly between base and p, shortest first, then p itself
Chain(p) ==
    LET low == IF Len(p) >= Len(HomeDir) /\ SubSeq(p, 1, Len(HomeDir)) = HomeDir
               THEN (IF Len(p) >= Len(CandidateDir)
                        /\ SubSeq(p, 1, Len(CandidateDir)) = CandidateDir
                     THEN Len(CandidateDir) ELSE Len(HomeDir))
               ELSE 0
    IN  [k \in 1..(Len(p) - low) |-> SubSeq(p, 1, low + k)]

\* The date the run will name the folder by (today when none is parsed)
NamingDate(a, t) ==
    IF Truthy(a.date) /\ strptime(TheValue(a.date)).ok
    THEN strptime(TheValue(a.date)).date ELSE t

\* A filesystem: /, the home directory, the candidate desktop path absent or
\* a directory or a file, and on the way to the folder of the run `have`
\* directories followed, when blocker is set, by a regular file.
DiskWith(cand, chain, have, blocker) ==
    LET dirs == {Root, HomeDir} \cup (IF cand = "dir" THEN {CandidateDir} ELSE {})
                \cup {chain[k] : k \in 1..have}
        files == (IF cand = "file" THEN {CandidateDir} ELSE {})
                 \cup (IF blocker THEN {chain[have + 1]} ELSE {})
    IN  [q \in dirs \cup files |-> IF q \in dirs THEN "dir" ELSE "file"]

\* The filesystems a run with command line a may start on
Disks(a, t) ==
    UNION { LET target == IF cand = "absent" THEN HomeDir ELSE CandidateDir
                chain == Chain(JoinPath(target, strftime(NamingDate(a, t), a.format)))
                reach == IF cand = "file" /\ chain # <<>>
                            /\ Parent(chain[1]) = CandidateDir
                         THEN 0 ELSE Len(chain)
            IN  { DiskWith(cand, chain, have, blocker) :
                    <<have, blocker>> \in
                       {hb \in (0..reach) \X BOOLEAN : hb[2] => hb[1] < reach} }
          : cand \in {"absent", "dir", "file"} }

\* A process that has parsed its command line (line 59) and done nothing else
Started ==
    /\ pc = "start"
    /\ desktop_path = None
    /\ date_obj = None
    /\ folder_path = None
    /\ out = <<>>
    /\ exit_status = None
    /\ run = 1
    /\ fs_start = fs
    /\ runs = <<>>

Init ==
    /\ args \in [date : DateArgs, format : Formats, dry_run : BOOLEAN]
    /\ today \in Todays
    /\ fs \in Disks(args, today)
    /\ denied \in {{}} \cup {{d} : d \in {q \in DOMAIN fs : fs[q] = "dir"}}
    /\ space \in 0..MaxSpace
    /\ Started

\* find_desktop_path without the existence test
find_desktop_path_unchecked(f) == COMMON_DESKTOP_DIRS[1]

\* find_desktop_path(): the first candidate that exists, else the home
find_desktop_path(f) ==
    LET hits == {i \in 1..Len(COMMON_DESKTOP_DIRS) :
                   exists(f, COMMON_DESKTOP_DIRS[i])}
    IN  IF hits # {}
        THEN COMMON_DESKTOP_DIRS[CHOOSE i \in hits : \A j \in hits : i <= j]
        ELSE HomeDir

\* main, line 62
FindDesktop ==
    /\ pc = "start"
    /\ desktop_path' = Some(find_desktop_path(fs))
    /\ pc' = "desktop"
    /\ UNCHANGED <<args, today, fs, denied, space, date_obj, folder_path, out,
                   exit_status, run, fs_start, runs>>

\* ResolveDate going on with today after the error line (no return)
ResolveDate_falls_through ==
    /\ pc = "desktop"
    /\ IF Truthy(args.date)
       THEN LET r == strptime(TheValue(args.date))
            IN  IF r.ok
                THEN /\ date_obj' = Some(r.date)
                     /\ pc' = "date"
                     /\ out' = out
                ELSE /\ date_obj' = Some(today)
                     /\ pc' = "date"
                     /\ out' = Append(out, [kind |-> "date-error"])
       ELSE /\ date_obj' = Some(today)
            /\ pc' = "date"
            /\ out' = out
    /\ UNCHANGED <<args, today, fs, denied, space, desktop_path, folder_path,
                   exit_status, run, fs_start, runs>>

\* ResolveDate never reading args.date
ResolveDate_ignores_date ==
    /\ pc = "desktop"
    /\ date_obj' = Some(today)
    /\ pc' = "date"
    /\ UNCHANGED <<args, today, fs, denied, space, desktop_path, folder_path,
                   out, exit_status, run, fs_start, runs>>

\* main, lines 65-72: the date is parsed, or the error is printed and main
\* returns, or today is taken
ResolveDate ==
    /\ pc = "desktop"
    /\ IF Truthy(args.date)
       THEN LET r == strptime(TheValue(args.date))
            IN  IF r.ok
                THEN /\ date_obj' = Some(r.date)
                     /\ pc' = "date"
                     /\ out' = out
                ELSE /\ date_obj' = date_obj
                     /\ pc' = "returned"
                     /\ out' = Append(out, [kind |-> "date-error"])
       ELSE /\ date_obj' = Some(today)
            /\ pc' = "date"
            /\ out' = out
    /\ UNCHANGED <<args, today, fs, denied, space, desktop_path, folder_path,
                   exit_status, run, fs_start, runs>>

\* make_folder_for_date without the dry-run return
make_folder_despite_dry_run(st, target_dir, date, fmt, dry_run) ==
    LET path == JoinPath(target_dir, strftime(date, fmt))
        made == PathMkdir(st, path, TRUE, TRUE)
    IN  IF made.err = "OK"
        THEN [disk |-> made, folder_path |-> path,
              printed |-> <<[kind |-> IF dry_run THEN "dry-run" ELSE "created",
                             path |-> path]>>,
              raised |-> FALSE]
        ELSE [disk |-> made, folder_path |-> path,
              printed |-> <<>>, raised |-> TRUE]

\* make_folder_for_date calling mkdir without exist_ok
make_folder_exist_not_ok(st, target_dir, date, fmt, dry_run) ==
    LET path == JoinPath(target_dir, strftime(date, fmt))
        made == PathMkdir(st, path, TRUE, FALSE)
    IN  IF dry_run
        THEN [disk |-> st, folder_path |-> path,
              printed |-> <<[kind |-> "dry-run", path |-> path]>>,
              raised |-> FALSE]
        ELSE IF made.err = "OK"
        THEN [disk |-> made, folder_path |-> path,
              printed |-> <<[kind |-> "created", path |-> path]>>,
              raised |-> FALSE]
        ELSE [disk |-> made, folder_path |-> path,
              printed |-> <<>>, raised |-> TRUE]

\* make_folder_for_date(target_dir, date, fmt, dry_run): the disk afterwards,
\* the path, the line printed and whether an OSError propagates
make_folder_for_date(st, target_dir, date, fmt, dry_run) ==
    LET folder_name == strftime(date, fmt)
        path == JoinPath(target_dir, folder_name)
        made == PathMkdir(st, path, TRUE, TRUE)
    IN  IF dry_run
        THEN [disk |-> st, folder_path |-> path,
              printed |-> <<[kind |-> "dry-run", path |-> path]>>,
              raised |-> FALSE]
        ELSE IF made.err = "OK"
        THEN [disk |-> made, folder_path |-> path,
              printed |-> <<[kind |-> "created", path |-> path]>>,
              raised |-> FALSE]
        ELSE [disk |-> made, folder_path |-> path,
              printed |-> <<>>, raised |-> TRUE]

\* main, line 75
MakeFolder ==
    /\ pc = "date"
    /\ LET r == make_folder_for_date(
                    [fs |-> fs, denied |-> denied, space |-> space, err |-> "OK"],
                    TheValue(desktop_path), TheValue(date_obj),
                    args.format, args.dry_run)
       IN  /\ fs' = r.disk.fs
           /\ space' = r.disk.space
           /\ folder_path' = Some(r.folder_path)
           /\ out' = out \o r.printed
           /\ pc' = IF r.raised THEN "raised" ELSE "returned"
    /\ UNCHANGED <<args, today, denied, desktop_path, date_obj, exit_status,
                   run, fs_start, runs>>

\* an exit status that forgets the exception
ExitCode_always_zero(at) == 0

\* The status the interpreter exits with: 0 when main() returned, 1 when an
\* exception left it
ExitCode(at) == IF at = "raised" THEN 1 ELSE 0

\* lines 78-79: the process ends
Exit ==
    /\ pc \in {"returned", "raised"}
    /\ exit_status' = Some(ExitCode(pc))
    /\ out' = IF pc = "raised" THEN Append(out, [kind |-> "traceback"]) ELSE out
    /\ pc' = "exited"
    /\ runs' = Append(runs, [status |-> ExitCode(pc), out |-> out',
                              before |-> fs_start, fs |-> fs])
    /\ UNCHANGED <<args, today, fs, denied, space, desktop_path, date_obj,
                   folder_path, run, fs_start>>

\* The program is started again with the same command line
Rerun ==
    /\ pc = "exited"
    /\ run < MaxRuns
    /\ run' = run + 1
    /\ pc' = "start"
    /\ desktop_path' = None
    /\ date_obj' = None
    /\ folder_path' = None
    /\ out' = <<>>
    /\ exit_status' = None
    /\ fs_start' = fs
    /\ UNCHANGED <<args, today, fs, denied, space, runs>>

Next == FindDesktop \/ ResolveDate \/ MakeFolder \/ Exit \/ Rerun

Spec == Init /\ [][Next]_vars

\* ------------------------------------------- every short --date text
Alphabet == {"0", "1", "2", "3", "9", ".", " "}

RECURSIVE Texts(_)
\* the texts over Alphabet of length at most n
Texts(n) ==
    IF n = 0 THEN {<<>>}
    ELSE Texts(n - 1) \cup {Append(s, c) : s \in Texts(n - 1), c \in Alphabet}

YearFormat == <<"%", "Y", "%", "m", "%", "d">>

\* One non-dry run on an empty home directory, for every --date text of
\* length at most MaxLen and the listed ones
InitParse ==
    /\ args \in [date : {Some(s) : s \in Texts(MaxLen)} \cup (DateArgs \ {None}),
                 format : {DefaultFormat, YearFormat},
                 dry_run : {FALSE}]
    /\ today \in Todays
    /\ fs = DiskWith("absent", <<>>, 0, FALSE)
    /\ denied = {}
    /\ space = MaxSpace
    /\ Started

NextParse == FindDesktop \/ ResolveDate \/ MakeFolder \/ Exit

SpecParse == InitParse /\ [][NextParse]_vars

\* ================================================================== claims
HasLine(lines, k) == \E i \in 1..Len(lines) : lines[i].kind = k

Prefixes(p) == {SubSeq(p, 1, k) : k \in 0..Len(p)}

DateErrorOnly == <<[kind |-> "date-error"]>>

\* C1: a dry run leaves the filesystem exactly as it found it, and what it
\* prints is the would-be path alone.
C1_DryRunNeverMutates ==
    args.dry_run =>
        /\ fs = fs_start
        /\ \A i \in 1..Len(runs) : runs[i].fs = runs[i].before
        /\ (pc \in {"returned", "exited"} /\ date_obj # None) =>
              out = <<[kind |-> "dry-run", path |-> TheValue(folder_path)]>>

\* C1 witness: a finished dry run whose folder does not exist
C1_Witness ==
    /\ args.dry_run
    /\ pc = "exited"
    /\ HasLine(out, "dry-run")
    /\ ~exists(fs, TheValue(folder_path))

\* C2: running again in non-dry-run mode leaves the filesystem the first
\* run left, and a run that follows a successful one succeeds with the same
\* confirmation line.
C2_Idempotent ==
    ~args.dry_run =>
        \A i \in 2..Len(runs) :
            /\ runs[i].fs = runs[1].fs
            /\ (runs[i - 1].status = 0 /\ HasLine(runs[i - 1].out, "created")) =>
                  /\ runs[i].status = 0
                  /\ runs[i].out = runs[i - 1].out

\* C2 witness: the first run created the folder, the second confirmed it
C2_Witness ==
    /\ ~args.dry_run
    /\ Len(runs) >= 2
    /\ runs[1].fs # runs[1].before
    /\ HasLine(runs[1].out, "created")
    /\ HasLine(runs[2].out, "created")

\* C3: when the --date text is rejected, the error is reported, the folder
\* is never made and the filesystem stays as it was, dry run or not.
C3_InvalidDateNoEffect ==
    ((Truthy(args.date) /\ ~strptime(TheValue(args.date)).ok)
       \/ HasLine(out, "date-error")) =>
        /\ fs = fs_start
        /\ folder_path = None
        /\ date_obj = None
        /\ pc \in {"start", "desktop", "returned", "exited"}
        /\ pc \in {"returned", "exited"} => out = DateErrorOnly

\* C3 witness: a finished non-dry run that reported the date error
C3_Witness ==
    /\ ~args.dry_run
    /\ pc = "exited"
    /\ out = DateErrorOnly
    /\ space > 0
    /\ denied = {}

\* C4 (as claimed): a run that ends with the date error exits non-zero.
C4_DateErrorExitsNonZero ==
    (pc = "exited" /\ HasLine(out, "date-error")) => exit_status # Some(0)

\* C5: a non-dry run with a resolved date exits 0 exactly when the folder is
\* there as a directory afterwards (made now or found), non-zero exactly when
\* the creation was rejected.
C5_ExitStatusOfCreation ==
    (pc = "exited" /\ ~args.dry_run /\ date_obj # None) =>
        /\ exit_status \in {Some(0), Some(1)}
        /\ (exit_status = Some(0)) <=> is_dir(fs, TheValue(folder_path))
        /\ (exit_status = Some(1)) <=> HasLine(out, "traceback")
        /\ (exit_status = Some(0)) <=> HasLine(out, "created")

\* C5 witness: the creation was rejected because the path is a regular file
C5_Witness ==
    /\ pc = "exited"
    /\ ~args.dry_run
    /\ exit_status = Some(1)
    /\ exists(fs, TheValue(folder_path))
    /\ ~is_dir(fs, TheValue(folder_path))

IsoDate == <<"2", "0", "2", "5", "-", "1", "1", "-", "0", "4">>

\* C6 (as claimed): --date 2025-11-04 with the default format is accepted
\* and names the folder 11.04.
C6_IsoDateNamesFolder ==
    (pc = "exited" /\ args.date = Some(IsoDate) /\ args.format = DefaultFormat) =>
        /\ date_obj # None
        /\ folder_path =
             Some(TheValue(desktop_path) \o <<<<"1", "1", ".", "0", "4">>>>)

\* C7: the resolver returns the candidate when it exists and the home
\* directory otherwise, the path returned exists, and resolving changes
\* nothing on disk.
C7_DesktopResolution ==
    desktop_path # None =>
        /\ exists(fs_start, CandidateDir) => desktop_path = Some(CandidateDir)
        /\ ~exists(fs_start, CandidateDir) => desktop_path = Some(HomeDir)
        /\ exists(fs, TheValue(desktop_path))
        /\ pc = "desktop" => fs = fs_start

\* C7 witness: the candidate is absent and the home directory was returned
C7_Witness ==
    /\ pc = "desktop"
    /\ ~exists(fs, CandidateDir)
    /\ desktop_path = Some(HomeDir)

\* C8: after a non-dry run whose make_folder_for_date returned, the folder
\* and every directory above it exist, and a confirmation line names a
\* directory that exists.
C8_FolderExistsAfterReturn ==
    /\ (~args.dry_run /\ pc \in {"returned", "exited"} /\ folder_path # None
          /\ ~HasLine(out, "traceback")) =>
           \A q \in Prefixes(TheValue(folder_path)) : is_dir(fs, q)
    /\ \A i \in 1..Len(out) :
           out[i].kind = "created" =>
              \A q \in Prefixes(out[i].path) : is_dir(fs, q)

\* C8 witness: the run made the folder and a missing parent above it
C8_Witness ==
    /\ pc = "returned"
    /\ HasLine(out, "created")
    /\ ~exists(fs_start, Parent(TheValue(folder_path)))
    /\ is_dir(fs, TheValue(folder_path))

RECURSIVE NumberOf(_)
\* the number a text of digits writes, a blank counting as nothing
NumberOf(s) ==
    IF s = <<>> THEN 0
    ELSE IF s[Len(s)] = " " THEN NumberOf(SubSeq(s, 1, Len(s) - 1))
    ELSE 10 * NumberOf(SubSeq(s, 1, Len(s) - 1)) + DigitVal(s[Len(s)])

DotAt(s) == CHOOSE i \in 1..Len(s) : s[i] = "."

\* C10: an accepted --date gives the date of year 1900 with the month and
\* day written in the text, whatever today and --format are; %Y renders
\* 1900, and no text for February 29 is accepted.
C10_ParsedYearIs1900 ==
    (Truthy(args.date) /\ date_obj # None) =>
        LET s == TheValue(args.date)
            d == TheValue(date_obj)
        IN  /\ d.year = 1900
            /\ d.month = NumberOf(SubSeq(s, 1, DotAt(s) - 1))
            /\ d.day = NumberOf(SubSeq(s, DotAt(s) + 1, Len(s)))
            /\ ~(d.month = 2 /\ d.day = 29)
            /\ (folder_path # None /\ args.format = YearFormat) =>
                  SubSeq(TheValue(folder_path)[Len(TheValue(folder_path))], 1, 4)
                     = <<"1", "9", "0", "0">>

\* C10 witness: a --date was accepted and the year format rendered the name
C10_Witness ==
    /\ Truthy(args.date)
    /\ date_obj # None
    /\ args.format = YearFormat
    /\ pc = "exited"
    /\ HasLine(out, "created")
    /\ today.year # 1900

====
